---- MODULE Spec2Model ----
(***************************************************************************)
(* The Local Health Store of openHealth (services/db.ts): four IndexedDB   *)
(* object stores (patients, readings, testReferences, preferences) and the *)
(* operations the pages call on them.                                      *)
(*                                                                         *)
(* An IndexedDB transaction is the unit of atomicity: transactions whose   *)
(* scopes overlap run one after another in creation order, a request that  *)
(* fails asynchronously aborts its transaction (every write of it is       *)
(* undone), and an exception thrown synchronously by put() (DataError: the *)
(* value has no key at the store's keyPath) aborts nothing: the requests   *)
(* already made in that transaction commit when it runs out of requests.   *)
(* One action of this model is therefore one transaction of the code, and  *)
(* an operation that opens several transactions takes several actions,     *)
(* between which the other callers may run.                                *)
(***************************************************************************)
EXTENDS Integers, Sequences, FiniteSets, TLC

VARIABLES
    patients,        \* object store 'patients'       (keyPath id)
    readings,        \* object store 'readings'       (keyPath id)
    testReferences,  \* object store 'testReferences' (keyPath id)
    preferences,     \* object store 'preferences'    (out-of-line key)
    dbPromise,       \* the module-level dbPromise: "null", "pending", "resolved", "rejected"
    pc,              \* per caller: where its running operation stands
    op,              \* per caller: the operation it runs, or ran last
    arg,             \* per caller: that operation's argument
    local,           \* per caller: the value its last read returned
    result,          \* per caller: "ok" (promise resolved), "error" (rejected)
    pre,             \* per caller: the four stores when its operation was called
    clean,           \* per caller: no other caller has written since that call
    exported,        \* the text exportEntireProfile returned last
    fresh,           \* no store has been written since that export
    nops             \* operations called so far

vars == <<patients, readings, testReferences, preferences, dbPromise, pc, op, arg,
          local, result, pre, clean, exported, fresh, nops>>

stores == <<patients, readings, testReferences, preferences>>

-----------------------------------------------------------------------------
(* Bounds *)

MaxOps == 3
MaxBatch == 2
MaxMemberOps == 5

(* The callers that may have an operation in flight at the same time: two  *)
(* event handlers of the page.                                             *)
Tasks == {"A", "B"}

-----------------------------------------------------------------------------
(* JavaScript values.  A number is an opaque token (the store never        *)
(* computes with one); Undefined stands for a property that reads as       *)
(* undefined, whether the key is missing or holds undefined.               *)

Undefined == "undefined"
NaN == "NaN"
Null == "null"

(* The strings used as test names and reference ids, as character lists.   *)
Chars(s) ==
    CASE s = "Hb"    -> <<"H", "b">>
      [] s = "hb"    -> <<"h", "b">>
      [] s = "H  b"  -> <<"H", " ", " ", "b">>
      [] s = "h-b"   -> <<"h", "-", "b">>
      [] s = "S"     -> <<"S">>
      [] s = "s"     -> <<"s">>

StringUniverse == {"Hb", "hb", "H  b", "h-b", "S", "s"}

Str(cs) == CHOOSE s \in StringUniverse : Chars(s) = cs

LowerChar(c) ==
    CASE c = "H" -> "h"
      [] c = "S" -> "s"
      [] OTHER   -> c

ToLowerCase(cs) == [i \in DOMAIN cs |-> LowerChar(cs[i])]

(* cs.replace(/\s+/g, '-'): every maximal run of whitespace becomes one '-' *)
RECURSIVE ReplaceWs(_)
ReplaceWs(cs) ==
    IF cs = <<>> THEN <<>>
    ELSE IF Head(cs) = " "
         THEN IF Len(cs) > 1 /\ cs[2] = " "
              THEN ReplaceWs(Tail(cs))
              ELSE <<"-">> \o ReplaceWs(Tail(cs))
         ELSE <<Head(cs)>> \o ReplaceWs(Tail(cs))

DeriveId(testName) == Str(ReplaceWs(ToLowerCase(Chars(testName))))

-----------------------------------------------------------------------------
(* Object stores.  A store with keyPath 'id' is the set of its records, at *)
(* most one per id.                                                        *)

(* The keys in use, in the order IndexedDB sorts string keys.               *)
KeyOrder == <<"h-b", "hb", "p1", "p2", "r1", "r2", "r3", "r4", "s">>

Rank(id) == CHOOSE i \in 1..Len(KeyOrder) : KeyOrder[i] = id

DB == [patients |-> patients, readings |-> readings,
       testReferences |-> testReferences, preferences |-> preferences]

(* put() on a store made with autoIncrement instead of keyPath 'id': the   *)
(* value is filed under the next unused key, whatever id it carries.       *)
Put_AutoIncrement(store, rec) ==
    LET used == {x.id : x \in store}
        free == {i \in 1..Len(KeyOrder) : KeyOrder[i] \notin used}
    IN IF free = {} THEN store
       ELSE store \cup {[rec EXCEPT !.id = KeyOrder[CHOOSE i \in free : \A j \in free : i <= j]]}

(* db.put writing the fields of the record over those of the stored one:   *)
(* a field the new record leaves undefined keeps the stored value.         *)
Put_MergeFields(store, rec) ==
    LET old == {x \in store : x.id = rec.id}
        merged == IF old = {} THEN rec
                  ELSE LET o == CHOOSE x \in old : TRUE
                       IN [k \in DOMAIN rec |->
                              IF rec[k] = Undefined /\ k \in DOMAIN o
                              THEN o[k] ELSE rec[k]]
    IN (store \ old) \cup {merged}

Put(store, rec) == {x \in store : x.id # rec.id} \cup {rec}

Delete(store, id) == {x \in store : x.id # id}

(* put() on a keyPath store throws DataError when the value has no key.    *)
PutThrows(rec) == rec.id = Undefined

ByPatientId(store, id) == {r \in store : r.patientId = id}

ByTestName(store, name) == {r \in store : r.testName = name}

PREFS_KEY == "user_prefs"

EmptyObject == [k \in {} |-> Undefined]

(* db.put('preferences', value, 'user_prefs') *)
PutPrefs(store, value) == {[key |-> PREFS_KEY, value |-> value]}

(* getPreferences: prefs || {} *)
GetPreferences(store) ==
    IF store = {} THEN EmptyObject ELSE (CHOOSE x \in store : TRUE).value

(* db.get('preferences', 'user_prefs'): the record, or undefined.          *)
DbGetPreferences(store) ==
    IF store = {} THEN [kind |-> "undefined"]
    ELSE [kind |-> "object", doc |-> (CHOOSE x \in store : TRUE).value]

(* getPreferences returning what db.get gave, with no default.             *)
OrEmptyObject_Missing(prefs) == prefs

(* prefs || {} *)
OrEmptyObject(prefs) ==
    IF prefs.kind = "undefined" THEN [kind |-> "object", doc |-> EmptyObject]
    ELSE prefs

(* { ...existing, ...prefs } with the spread of existing left out.         *)
Merge_Replace(existing, prefs) == prefs

(* { ...existing, ...prefs } *)
Merge(existing, prefs) ==
    [k \in DOMAIN existing \cup DOMAIN prefs |->
        IF k \in DOMAIN prefs THEN prefs[k] ELSE existing[k]]

-----------------------------------------------------------------------------
(* JSON.  JSON.stringify writes NaN as null and leaves out a property      *)
(* whose value is undefined (it reads as undefined afterwards as before);  *)
(* JSON.parse gives back what the text says.  A text is                    *)
(* [kind |-> "object", doc |-> the object], [kind |-> "null"] for the text *)
(* "null", or [kind |-> "garbage"] for a text JSON.parse throws on.        *)

JsonValue(v) == IF v = NaN THEN Null ELSE v

JsonObject(r) == [k \in DOMAIN r |-> JsonValue(r[k])]

(* getAll: the records of a store as an array, in key order.               *)
RECURSIVE GetAll(_)
GetAll(store) ==
    IF store = {} THEN <<>>
    ELSE LET x == CHOOSE y \in store : \A z \in store : Rank(y.id) <= Rank(z.id)
         IN <<x>> \o GetAll(store \ {x})

JsonArray(recs) == [i \in DOMAIN recs |-> JsonObject(recs[i])]

Has(doc, k) == k \in DOMAIN doc

-----------------------------------------------------------------------------
(* The values the callers pass.                                            *)

PatientAlice == [id |-> "p1", name |-> "Alice", age |-> "30"]
PatientAlicia == [id |-> "p1", name |-> "Alicia", age |-> Undefined]
PatientBob == [id |-> "p2", name |-> "Bob", age |-> Undefined]
PatientNoId == [id |-> Undefined, name |-> "Eve", age |-> Undefined]

ReadingR1 ==
    [id |-> "r1", patientId |-> "p1", testName |-> "Hb", value |-> "13.5",
     unit |-> "g/dL", idealMin |-> "12", idealMax |-> "16"]
ReadingR2 ==
    [id |-> "r2", patientId |-> "p1", testName |-> "hb", value |-> NaN,
     unit |-> "g/L", idealMin |-> Undefined, idealMax |-> Undefined]
ReadingR3 ==
    [id |-> "r3", patientId |-> "p2", testName |-> "H  b", value |-> "9",
     unit |-> "mmol", idealMin |-> Undefined, idealMax |-> "20"]
ReadingR4 ==
    [id |-> "r4", patientId |-> "p2", testName |-> "Hb", value |-> "11",
     unit |-> "mmol/L", idealMin |-> "10", idealMax |-> Undefined]
ReadingNoId ==
    [id |-> Undefined, patientId |-> "p1", testName |-> "Hb", value |-> "14",
     unit |-> "g/dL", idealMin |-> Undefined, idealMax |-> Undefined]

RefHb ==
    [id |-> "hb", testName |-> "Hb", category |-> "Blood", unit |-> "mg",
     defaultIdealMin |-> "1", defaultIdealMax |-> Undefined]

(* The seeded reference as the user edits it on the Test Detail page.      *)
RefSEdited ==
    [id |-> "s", testName |-> "S", category |-> "Blood", unit |-> "mmol/L",
     defaultIdealMin |-> "4", defaultIdealMax |-> "6"]

PrefsSort == [sortMembersBy |-> "age"]
PrefsFilter == [filterMembersQuery |-> "abc"]

PrefsSortName == [sortMembersBy |-> "name"]

PatientInputs == {PatientAlice, PatientBob}
PatientIds == {"p1", "p2"}
ReadingInputs == {ReadingR1, ReadingR2, ReadingR3}

(* Readings of one test name, and of a name that differs from it in case.  *)
NameInputs == {ReadingR1, ReadingR2, ReadingR4}
NamePairs == {b \in NameInputs \X NameInputs : b[1] # b[2]}

(* The batches bulkSaveReadings is called with: up to MaxBatch readings.   *)
BatchInputs ==
    {b \in UNION {[1..n -> ReadingInputs \cup {ReadingNoId}] : n \in 0..MaxBatch} :
        \A i, j \in DOMAIN b : i # j => b[i] # b[j]}

(* The texts importProfile is called with, besides the last export.        *)
FullProfileText ==
    [kind |-> "object",
     doc |-> [patients |-> <<PatientAlicia>>, readings |-> <<ReadingR1>>,
              testReferences |-> <<RefHb>>, preferences |-> PrefsFilter]]
FullNoIdText ==
    [kind |-> "object",
     doc |-> [patients |-> <<PatientBob, PatientNoId>>, readings |-> <<ReadingR3>>]]
MemberText ==
    [kind |-> "object", doc |-> [patient |-> PatientBob, readings |-> <<ReadingR3>>]]
ReferencesText ==
    [kind |-> "object", doc |-> [testReferences |-> <<RefHb>>]]
PatientsAndReferencesText ==
    [kind |-> "object",
     doc |-> [patients |-> <<PatientAlice>>, testReferences |-> <<RefHb>>]]
EmptyObjectText == [kind |-> "object", doc |-> EmptyObject]
NullText == [kind |-> "null"]
GarbageText == [kind |-> "garbage"]

(* Payloads that more than one test of importProfile's chain accepts.      *)
FullWithPatientText ==
    [kind |-> "object",
     doc |-> [patients |-> <<PatientAlice>>, patient |-> PatientBob,
              readings |-> <<ReadingR1>>]]
MemberWithReferencesText ==
    [kind |-> "object",
     doc |-> [patient |-> PatientBob, readings |-> <<ReadingR3>>,
              testReferences |-> <<RefHb>>]]

ClassifyInputs ==
    {FullWithPatientText, MemberWithReferencesText, MemberText, ReferencesText}

ImportInputs ==
    {FullProfileText, FullNoIdText, MemberText, ReferencesText,
     PatientsAndReferencesText, EmptyObjectText, NullText, GarbageText}

(* data/defaultTests: the catalog initDB seeds an empty store with.        *)
defaultTests ==
    {[id |-> "s", testName |-> "S", category |-> "Blood", unit |-> "mg/dL",
      defaultIdealMin |-> "70", defaultIdealMax |-> "100"]}

-----------------------------------------------------------------------------
(* The Add Reading page's bulk entry.  A pasted text is the list of its    *)
(* lines, a line the list of its comma-separated, trimmed fields.          *)

LineHb == <<"Hb", "13.5", "g/dL", "2026-01-01", "12", "16">>
LineNaN == <<"hb", "abc", "g/L", "2026-01-02">>
LineShort == <<"Hb", "13.5", "g/dL">>
LineBadDate == <<"Hb", "13.5", "g/dL", "someday">>
LineBlank == <<"">>

(* The texts pasted: well formed, with a blank line, with a short line    *)
(* after a well-formed one, with a line without a date, only blank.        *)
BulkTexts ==
    {<<LineHb>>, <<LineHb, LineNaN>>, <<LineBlank, LineNaN>>,
     <<LineHb, LineShort>>, <<LineBadDate, LineHb>>, <<LineBlank>>}

(* parseFloat *)
ParseFloat(s) == IF s \in {"abc", "", "someday"} THEN NaN ELSE s

(* new Date(s).toISOString() throws RangeError unless s is a date.         *)
DateThrows(s) == s \notin {"2026-01-01", "2026-01-02"}

(* parts[i] ? parseFloat(parts[i]) : undefined *)
OptionalBound(parts, i) ==
    IF i <= Len(parts) /\ parts[i] # "" THEN ParseFloat(parts[i]) ELSE Undefined

(* The ids uuidv4 may give: those no stored reading has.                   *)
ReadingKeys == <<"r1", "r2", "r3", "r4">>
FreshIds(store) ==
    SelectSeq(ReadingKeys, LAMBDA k : \A r \in store : r.id # k)

NotBlank(line) == line # LineBlank

(* The reading made of one line.                                           *)
ParseLine(id, parts, rid) ==
    [id |-> rid, patientId |-> id, testName |-> parts[1],
     value |-> ParseFloat(parts[2]), unit |-> parts[3],
     idealMin |-> OptionalBound(parts, 5), idealMax |-> OptionalBound(parts, 6)]

(* The line makes lines.map throw: too few fields, or no date.             *)
LineThrows(parts) == Len(parts) < 4 \/ DateThrows(parts[4])

(* handleBulkSubmit leaving malformed lines out instead of throwing.       *)
ParseBulkText_SkipMalformed(id, bulkText, ids) ==
    LET lines == SelectSeq(bulkText, LAMBDA l : NotBlank(l) /\ ~LineThrows(l))
    IN IF lines = <<>> THEN [kind |-> "ignored"]
       ELSE [kind |-> "parsed",
             readings |-> [i \in 1..Len(lines) |-> ParseLine(id, lines[i], ids[i])]]

(* handleBulkSubmit up to its call of the store: nothing to do for a text  *)
(* of blanks, an alert if a line throws, else the readings of the lines.   *)
ParseBulkText(id, bulkText, ids) ==
    LET lines == SelectSeq(bulkText, NotBlank)
    IN IF lines = <<>> THEN [kind |-> "ignored"]
       ELSE IF \E i \in 1..Len(lines) : LineThrows(lines[i])
            THEN [kind |-> "formatError"]
       ELSE [kind |-> "parsed",
             readings |-> [i \in 1..Len(lines) |-> ParseLine(id, lines[i], ids[i])]]

-----------------------------------------------------------------------------
(* The transactions of the operations, as functions of the stores.  Each   *)
(* gives the stores the transaction leaves when no request of it fails     *)
(* asynchronously, and whether the operation threw.                        *)

(* for (const x of recs) await store.put(x): stops at the first put that   *)
(* throws; the puts before it stay in the transaction.                     *)
RECURSIVE PutAll(_, _)
PutAll(store, recs) ==
    IF recs = <<>> THEN [store |-> store, threw |-> FALSE]
    ELSE IF PutThrows(Head(recs)) THEN [store |-> store, threw |-> TRUE]
    ELSE PutAll(Put(store, Head(recs)), Tail(recs))

(* The derived reference filed under the reading's own id, not under an id *)
(* made from the test name.                                                *)
DerivedRef_ReadingId(reading) ==
    [id |-> reading.id, testName |-> reading.testName,
     category |-> Undefined, unit |-> reading.unit,
     defaultIdealMin |-> reading.idealMin, defaultIdealMax |-> reading.idealMax]

(* The TestReference saveReading and bulkSaveReadings derive from a reading *)
DerivedRef(reading) ==
    [id |-> DeriveId(reading.testName), testName |-> reading.testName,
     category |-> Undefined, unit |-> reading.unit,
     defaultIdealMin |-> reading.idealMin, defaultIdealMax |-> reading.idealMax]

(* bulkSaveReadings putting the derived reference for every reading,       *)
(* without the lookup by test name.                                        *)
RECURSIVE BulkLoop_DeriveEach(_, _)
BulkLoop_DeriveEach(db, rs) ==
    IF rs = <<>> THEN [db |-> db, threw |-> FALSE]
    ELSE IF PutThrows(Head(rs)) THEN [db |-> db, threw |-> TRUE]
    ELSE LET r == Head(rs)
             d1 == [db EXCEPT !.readings = Put(@, r)]
             d2 == [d1 EXCEPT !.testReferences = Put(@, DerivedRef(r))]
         IN BulkLoop_DeriveEach(d2, Tail(rs))

(* bulkSaveReadings putting the readings and deriving no reference.        *)
BulkLoop_NoDerive(db, rs) ==
    LET a == PutAll(db.readings, rs)
    IN [db |-> [db EXCEPT !.readings = a.store], threw |-> a.threw]

(* bulkSaveReadings: the loop inside its one transaction.                  *)
RECURSIVE BulkLoop(_, _)
BulkLoop(db, rs) ==
    IF rs = <<>> THEN [db |-> db, threw |-> FALSE]
    ELSE IF PutThrows(Head(rs)) THEN [db |-> db, threw |-> TRUE]
    ELSE LET r == Head(rs)
             d1 == [db EXCEPT !.readings = Put(@, r)]
             existingRefs == ByTestName(d1.testReferences, r.testName)
             d2 == IF existingRefs = {}
                   THEN [d1 EXCEPT !.testReferences = Put(@, DerivedRef(r))]
                   ELSE d1
         IN BulkLoop(d2, Tail(rs))

(* The cursor loop without its cursor.continue(): only the first reading   *)
(* of the patient is deleted.                                              *)
CascadeDelete_FirstOnly(store, id) ==
    IF ByPatientId(store, id) = {} THEN store
    ELSE store \ {CHOOSE r \in ByPatientId(store, id) :
                     \A q \in ByPatientId(store, id) : Rank(r.id) <= Rank(q.id)}

(* The cursor loop over the whole readings store instead of the            *)
(* by-patientId range: every reading is deleted.                           *)
CascadeDelete_AllReadings(store, id) == {}

(* deletePatient's second transaction: the cursor over by-patientId.       *)
CascadeDelete(store, id) == store \ ByPatientId(store, id)

(* importProfile, branch 1, putting the payload's preferences merged into  *)
(* the stored ones, as savePreferences does.                               *)
ImportFull_MergePrefs(db, data) ==
    LET a == PutAll(db.patients, data.patients)
        b == IF a.threw THEN [store |-> db.readings, threw |-> TRUE]
             ELSE PutAll(db.readings, data.readings)
        c == IF b.threw THEN [store |-> db.testReferences, threw |-> TRUE]
             ELSE IF Has(data, "testReferences")
                  THEN PutAll(db.testReferences, data.testReferences)
                  ELSE [store |-> db.testReferences, threw |-> FALSE]
        d == IF ~c.threw /\ Has(data, "preferences")
             THEN PutPrefs(db.preferences,
                           Merge(GetPreferences(db.preferences), data.preferences))
             ELSE db.preferences
    IN [db |-> [patients |-> a.store, readings |-> b.store,
                testReferences |-> c.store, preferences |-> d],
        threw |-> c.threw]

(* importProfile, branch 1: patients, readings, then the optional parts.   *)
ImportFull(db, data) ==
    LET a == PutAll(db.patients, data.patients)
        b == IF a.threw THEN [store |-> db.readings, threw |-> TRUE]
             ELSE PutAll(db.readings, data.readings)
        c == IF b.threw THEN [store |-> db.testReferences, threw |-> TRUE]
             ELSE IF Has(data, "testReferences")
                  THEN PutAll(db.testReferences, data.testReferences)
                  ELSE [store |-> db.testReferences, threw |-> FALSE]
        d == IF ~c.threw /\ Has(data, "preferences")
             THEN PutPrefs(db.preferences, data.preferences)
             ELSE db.preferences
    IN [db |-> [patients |-> a.store, readings |-> b.store,
                testReferences |-> c.store, preferences |-> d],
        threw |-> c.threw]

(* importProfile, branch 2: the one patient, then its readings.            *)
ImportMember(db, data) ==
    LET a == PutAll(db.patients, <<data.patient>>)
        b == IF a.threw THEN [store |-> db.readings, threw |-> TRUE]
             ELSE PutAll(db.readings, data.readings)
    IN [db |-> [db EXCEPT !.patients = a.store, !.readings = b.store],
        threw |-> b.threw]

(* importProfile, branch 3: the references.                                *)
ImportReferences(db, data) ==
    LET c == PutAll(db.testReferences, data.testReferences)
    IN [db |-> [db EXCEPT !.testReferences = c.store], threw |-> c.threw]

(* importProfile without its final else: a payload no branch takes is     *)
(* passed over in silence.                                                 *)
ImportRun_NoReject(db, text) ==
    IF text.kind # "object" THEN [db |-> db, threw |-> TRUE]
    ELSE LET data == text.doc
         IN IF Has(data, "patients") /\ Has(data, "readings")
                THEN ImportFull(db, data)
            ELSE IF Has(data, "patient") /\ Has(data, "readings")
                THEN ImportMember(db, data)
            ELSE IF Has(data, "testReferences")
                THEN ImportReferences(db, data)
            ELSE [db |-> db, threw |-> FALSE]

(* importProfile with the first two tests of the chain in the other order. *)
ImportRun_MemberFirst(db, text) ==
    IF text.kind # "object" THEN [db |-> db, threw |-> TRUE]
    ELSE LET data == text.doc
         IN IF Has(data, "patient") /\ Has(data, "readings")
                THEN ImportMember(db, data)
            ELSE IF Has(data, "patients") /\ Has(data, "readings")
                THEN ImportFull(db, data)
            ELSE IF Has(data, "testReferences")
                THEN ImportReferences(db, data)
            ELSE [db |-> db, threw |-> TRUE]

(* importProfile: JSON.parse, then the branch the payload's keys select.   *)
ImportRun(db, text) ==
    IF text.kind # "object" THEN [db |-> db, threw |-> TRUE]
    ELSE LET data == text.doc
         IN IF Has(data, "patients") /\ Has(data, "readings")
                THEN ImportFull(db, data)
            ELSE IF Has(data, "patient") /\ Has(data, "readings")
                THEN ImportMember(db, data)
            ELSE IF Has(data, "testReferences")
                THEN ImportReferences(db, data)
            ELSE [db |-> db, threw |-> TRUE]

(* exportEntireProfile: JSON.stringify of the four getAll/get results.     *)
ExportText(db) ==
    [kind |-> "object",
     doc |-> [patients |-> JsonArray(GetAll(db.patients)),
              readings |-> JsonArray(GetAll(db.readings)),
              testReferences |-> JsonArray(GetAll(db.testReferences)),
              preferences |-> JsonObject(GetPreferences(db.preferences))]]
(* exportMemberData: JSON.stringify({ patient, readings }) of what the two *)
(* reads gave; `found` holds the patient of that id, if there is one.      *)
MemberExportText(found, rs) ==
    [kind |-> "object",
     doc |-> IF found = {} THEN [readings |-> JsonArray(GetAll(rs))]
             ELSE [patient |-> JsonObject(CHOOSE p \in found : TRUE),
                   readings |-> JsonArray(GetAll(rs))]]

-----------------------------------------------------------------------------
(* The state after the module is loaded: nothing opened, nothing stored.   *)

NoText == [kind |-> "none"]

Init ==
    /\ patients = {}
    /\ readings = {}
    /\ testReferences = {}
    /\ preferences = {}
    /\ dbPromise = "null"
    /\ pc = [t \in Tasks |-> "idle"]
    /\ op = [t \in Tasks |-> "none"]
    /\ arg = [t \in Tasks |-> "none"]
    /\ local = [t \in Tasks |-> {}]
    /\ result = [t \in Tasks |-> "none"]
    /\ pre = [t \in Tasks |-> DB]
    /\ clean = [t \in Tasks |-> TRUE]
    /\ exported = NoText
    /\ fresh = FALSE
    /\ nops = 0

(* What every step does to the bookkeeping.                                *)
Commit(d) ==
    /\ patients' = d.patients
    /\ readings' = d.readings
    /\ testReferences' = d.testReferences
    /\ preferences' = d.preferences

Watch(t, called) ==
    /\ clean' = [u \in Tasks |->
                    IF u = t THEN called \/ clean[t]
                    ELSE clean[u] /\ stores' = stores]

(* The caller t calls operation o with argument a: every operation starts  *)
(* with `const db = await initDB()`, which an opened database lets pass.   *)
CanCall(t) ==
    /\ pc[t] = "idle"
    /\ dbPromise = "resolved"
    /\ nops < MaxOps

Called(t, o, a) ==
    /\ nops' = nops + 1
    /\ op' = [op EXCEPT ![t] = o]
    /\ arg' = [arg EXCEPT ![t] = a]
    /\ pre' = [pre EXCEPT ![t] = DB]
    /\ Watch(t, TRUE)

(* The caller t goes on with the operation it is in, at label l.           *)
At(t, o, l) == pc[t] = l /\ op[t] = o

Resumed(t) ==
    /\ UNCHANGED <<nops, op, arg, pre>>
    /\ Watch(t, FALSE)

Goto(t, l) == pc' = [pc EXCEPT ![t] = l] /\ UNCHANGED result

Return(t, r) ==
    /\ pc' = [pc EXCEPT ![t] = "idle"]
    /\ result' = [result EXCEPT ![t] = r]

(* A transaction that a storage fault aborted: no write of it survives,    *)
(* and the awaiting operation rejects.                                     *)
Aborted(t) == Commit(DB) /\ Return(t, "error")

(* A transaction that ran: it commits what `out` says and the operation    *)
(* returns, rejecting if it threw.                                         *)
Ran(t, out) == Commit(out.db) /\ Return(t, IF out.threw THEN "error" ELSE "ok")

Stale == fresh' = (fresh /\ stores' = stores) /\ UNCHANGED exported

-----------------------------------------------------------------------------
(* initDB                                                                  *)

(* The first call of initDB(): dbPromise is set to the pending openDB.     *)
InitDB ==
    /\ dbPromise = "null"
    /\ dbPromise' = "pending"
    /\ UNCHANGED <<patients, readings, testReferences, preferences, pc, op, arg,
                   local, result, pre, clean, exported, fresh, nops>>

(* initDB putting the defaults without counting the store first.           *)
OpenAndSeed_Always ==
    /\ dbPromise = "pending"
    /\ dbPromise' = "resolved"
    /\ testReferences' =
          {x \in testReferences : \A d \in defaultTests : x.id # d.id} \cup defaultTests
    /\ UNCHANGED <<patients, readings, preferences, pc, op, arg, local, result,
                   pre, clean, exported, fresh, nops>>

(* initDB without its `if (!dbPromise)`: every call opens the database     *)
(* anew.                                                                   *)
InitDB_await_Reopen(t) ==
    /\ pc[t] = "idle"
    /\ dbPromise' = "pending"
    /\ pc' = [pc EXCEPT ![t] = "initDB_await"]
    /\ op' = [op EXCEPT ![t] = "initDB"]
    /\ UNCHANGED <<patients, readings, testReferences, preferences, arg, local,
                   result, pre, clean, exported, fresh, nops>>

(* initDB opening the database again when the promise it kept has          *)
(* rejected.                                                               *)
InitDB_await_Retry(t) ==
    /\ pc[t] = "idle"
    /\ dbPromise' = IF dbPromise \in {"null", "rejected"} THEN "pending" ELSE dbPromise
    /\ pc' = [pc EXCEPT ![t] = "initDB_await"]
    /\ op' = [op EXCEPT ![t] = "initDB"]
    /\ UNCHANGED <<patients, readings, testReferences, preferences, arg, local,
                   result, pre, clean, exported, fresh, nops>>

(* `const db = await initDB()`, the first statement of every operation:    *)
(* the caller opens the database if no caller has, and awaits the promise. *)
InitDB_await(t) ==
    /\ pc[t] = "idle"
    /\ dbPromise' = IF dbPromise = "null" THEN "pending" ELSE dbPromise
    /\ pc' = [pc EXCEPT ![t] = "initDB_await"]
    /\ op' = [op EXCEPT ![t] = "initDB"]
    /\ UNCHANGED <<patients, readings, testReferences, preferences, arg, local,
                   result, pre, clean, exported, fresh, nops>>

(* The promise has resolved: the caller goes on with its operation.        *)
InitDB_resolved(t) ==
    /\ pc[t] = "initDB_await"
    /\ dbPromise = "resolved"
    /\ pc' = [pc EXCEPT ![t] = "idle"]
    /\ result' = [result EXCEPT ![t] = "ok"]
    /\ UNCHANGED <<patients, readings, testReferences, preferences, dbPromise, op,
                   arg, local, pre, clean, exported, fresh, nops>>

(* The promise has rejected: so does the caller's operation, before it     *)
(* touches a store.                                                        *)
InitDB_rejected(t) ==
    /\ pc[t] = "initDB_await"
    /\ dbPromise = "rejected"
    /\ pc' = [pc EXCEPT ![t] = "idle"]
    /\ result' = [result EXCEPT ![t] = "error"]
    /\ UNCHANGED <<patients, readings, testReferences, preferences, dbPromise, op,
                   arg, local, pre, clean, exported, fresh, nops>>

(* openDB rejects, or a request of the seeding fails and its transaction   *)
(* aborts: nothing is written and the promise rejects.                     *)
OpenFailed ==
    /\ dbPromise = "pending"
    /\ dbPromise' = "rejected"
    /\ UNCHANGED <<patients, readings, testReferences, preferences, pc, op, arg,
                   local, result, pre, clean, exported, fresh, nops>>

(* openDB resolves; the stores exist, and the defaults are put if          *)
(* testReferences counts 0.                                                *)
OpenAndSeed ==
    /\ dbPromise = "pending"
    /\ dbPromise' = "resolved"
    /\ testReferences' =
          IF Cardinality(testReferences) = 0 THEN defaultTests ELSE testReferences
    /\ UNCHANGED <<patients, readings, preferences, pc, op, arg, local, result,
                   pre, clean, exported, fresh, nops>>

(* The page is loaded anew (the Settings page does so after an import, the *)
(* user may at any time): the module's state is as at load, operations in  *)
(* flight are gone, and the database keeps what was committed.             *)
Reload ==
    /\ dbPromise # "null"
    /\ dbPromise' = "null"
    /\ pc' = [t \in Tasks |-> "idle"]
    /\ op' = [t \in Tasks |-> "none"]
    /\ arg' = [t \in Tasks |-> "none"]
    /\ local' = [t \in Tasks |-> {}]
    /\ result' = [t \in Tasks |-> "none"]
    /\ pre' = [t \in Tasks |-> DB]
    /\ clean' = [t \in Tasks |-> TRUE]
    /\ UNCHANGED <<patients, readings, testReferences, preferences, exported,
                   fresh, nops>>

-----------------------------------------------------------------------------
(* savePatient: one put.                                                   *)
SavePatient(t, patient) ==
    /\ CanCall(t)
    /\ \/ Ran(t, IF PutThrows(patient) THEN [db |-> DB, threw |-> TRUE]
                 ELSE [db |-> [DB EXCEPT !.patients = Put(@, patient)],
                       threw |-> FALSE])
       \/ Aborted(t)
    /\ Called(t, "savePatient", patient)
    /\ Stale
    /\ UNCHANGED <<dbPromise, local>>

(* deletePatient: db.delete('patients', id) in a transaction of its own... *)
DeletePatient_delete(t, id) ==
    /\ CanCall(t)
    /\ \/ Commit([DB EXCEPT !.patients = Delete(@, id)])
          /\ Goto(t, "deletePatient_cascade")
       \/ Aborted(t)
    /\ Called(t, "deletePatient", id)
    /\ Stale
    /\ UNCHANGED <<dbPromise, local>>

(* ...then the readings of that patient, in a second transaction.          *)
DeletePatient_cascade(t) ==
    /\ At(t, "deletePatient", "deletePatient_cascade")
    /\ \/ Ran(t, [db |-> [DB EXCEPT !.readings = CascadeDelete(@, arg[t])],
                  threw |-> FALSE])
       \/ Aborted(t)
    /\ Resumed(t)
    /\ Stale
    /\ UNCHANGED <<dbPromise, local>>

(* deleteReading: the reading of that id is deleted, in one transaction.   *)
DeleteReading(t, rid) ==
    /\ CanCall(t)
    /\ \/ Ran(t, [db |-> [DB EXCEPT !.readings = Delete(@, rid)], threw |-> FALSE])
       \/ Aborted(t)
    /\ Called(t, "deleteReading", rid)
    /\ Stale
    /\ UNCHANGED <<dbPromise, local>>

(* The readings of a patient whose testName is exactly that name.          *)
ByPatientAndName(store, patientId, testName) ==
    {r \in ByPatientId(store, patientId) : r.testName = testName}

(* deleteTestReadingsByName: each of those readings is deleted.            *)
DeleteTestReadingsByName(t, patientId, testName) ==
    /\ CanCall(t)
    /\ \/ Ran(t, [db |-> [DB EXCEPT !.readings =
                                @ \ ByPatientAndName(@, patientId, testName)],
                  threw |-> FALSE])
       \/ Aborted(t)
    /\ Called(t, "deleteTestReadingsByName", <<patientId, testName>>)
    /\ Stale
    /\ UNCHANGED <<dbPromise, local>>

(* saveReading: the put of the reading...                                  *)
SaveReading_put(t, reading) ==
    /\ CanCall(t)
    /\ \/ /\ ~PutThrows(reading)
          /\ Commit([DB EXCEPT !.readings = Put(@, reading)])
          /\ Goto(t, "saveReading_getRefs")
       \/ /\ PutThrows(reading)
          /\ Ran(t, [db |-> DB, threw |-> TRUE])
       \/ Aborted(t)
    /\ Called(t, "saveReading", reading)
    /\ Stale
    /\ UNCHANGED <<dbPromise, local>>

(* ...the lookup of the references of that name...                         *)
SaveReading_getRefs(t) ==
    /\ At(t, "saveReading", "saveReading_getRefs")
    /\ \/ /\ local' = [local EXCEPT ![t] = ByTestName(testReferences, arg[t].testName)]
          /\ Commit(DB)
          /\ IF local'[t] = {}
             THEN Goto(t, "saveReading_putRef")
             ELSE Return(t, "ok")
       \/ Aborted(t) /\ UNCHANGED local
    /\ Resumed(t)
    /\ Stale
    /\ UNCHANGED dbPromise

(* ...and, if there was none, the put of the derived reference.            *)
SaveReading_putRef(t) ==
    /\ At(t, "saveReading", "saveReading_putRef")
    /\ \/ Ran(t, [db |-> [DB EXCEPT !.testReferences = Put(@, DerivedRef(arg[t]))],
                  threw |-> FALSE])
       \/ Aborted(t)
    /\ Resumed(t)
    /\ Stale
    /\ UNCHANGED <<dbPromise, local>>

(* bulkSaveReadings: one transaction over readings and testReferences.     *)
BulkSaveReadings(t, batch) ==
    /\ CanCall(t)
    /\ \/ Ran(t, BulkLoop(DB, batch))
       \/ Aborted(t)
    /\ Called(t, "bulkSaveReadings", batch)
    /\ Stale
    /\ UNCHANGED <<dbPromise, local>>

(* saveTestReference: one put.                                             *)
SaveTestReference(t, ref) ==
    /\ CanCall(t)
    /\ \/ Ran(t, [db |-> [DB EXCEPT !.testReferences = Put(@, ref)], threw |-> FALSE])
       \/ Aborted(t)
    /\ Called(t, "saveTestReference", ref)
    /\ Stale
    /\ UNCHANGED <<dbPromise, local>>

(* savePreferences: the read of the existing record...                     *)
SavePreferences_get(t, prefs) ==
    /\ CanCall(t)
    /\ \/ /\ local' = [local EXCEPT ![t] = GetPreferences(preferences)]
          /\ Commit(DB)
          /\ Goto(t, "savePreferences_put")
       \/ Aborted(t) /\ UNCHANGED local
    /\ Called(t, "savePreferences", prefs)
    /\ Stale
    /\ UNCHANGED dbPromise

(* savePreferences merging into the record stored when it writes, not into *)
(* the one it read.                                                        *)
SavePreferences_put_Reread(t) ==
    /\ At(t, "savePreferences", "savePreferences_put")
    /\ \/ Ran(t, [db |-> [DB EXCEPT !.preferences =
                             PutPrefs(@, Merge(GetPreferences(preferences), arg[t]))],
                  threw |-> FALSE])
       \/ Aborted(t)
    /\ Resumed(t)
    /\ Stale
    /\ UNCHANGED <<dbPromise, local>>

(* ...and the put of the merge.                                            *)
SavePreferences_put(t) ==
    /\ At(t, "savePreferences", "savePreferences_put")
    /\ \/ Ran(t, [db |-> [DB EXCEPT !.preferences = PutPrefs(@, Merge(local[t], arg[t]))],
                  threw |-> FALSE])
       \/ Aborted(t)
    /\ Resumed(t)
    /\ Stale
    /\ UNCHANGED <<dbPromise, local>>

(* getPreferences, called by a page when it mounts: one get, and the       *)
(* default.                                                                *)
GetPreferences_call(t) ==
    /\ CanCall(t)
    /\ \/ /\ local' = [local EXCEPT ![t] = OrEmptyObject(DbGetPreferences(preferences))]
          /\ Commit(DB)
          /\ Return(t, "ok")
       \/ Aborted(t) /\ UNCHANGED local
    /\ Called(t, "getPreferences", "none")
    /\ Stale
    /\ UNCHANGED dbPromise

(* exportEntireProfile: the four reads are made in one turn of the event   *)
(* loop, so no transaction created later runs between them.                *)
ExportEntireProfile(t) ==
    /\ CanCall(t)
    /\ \/ /\ exported' = ExportText(DB)
          /\ fresh' = TRUE
          /\ Commit(DB)
          /\ Return(t, "ok")
       \/ Aborted(t) /\ UNCHANGED <<exported, fresh>>
    /\ Called(t, "exportEntireProfile", "none")
    /\ UNCHANGED <<dbPromise, local>>

(* exportMemberData: db.get('patients', patientId)...                      *)
ExportMemberData_get(t, patientId) ==
    /\ CanCall(t)
    /\ \/ /\ local' = [local EXCEPT ![t] = {p \in patients : p.id = patientId}]
          /\ Commit(DB)
          /\ Goto(t, "exportMemberData_readings")
       \/ Aborted(t) /\ UNCHANGED local
    /\ Called(t, "exportMemberData", patientId)
    /\ Stale
    /\ UNCHANGED dbPromise

(* ...then getPatientReadings(patientId), in a transaction of its own, and *)
(* the text of the two.                                                    *)
ExportMemberData_readings(t) ==
    /\ At(t, "exportMemberData", "exportMemberData_readings")
    /\ \/ /\ exported' = MemberExportText(local[t], ByPatientId(readings, arg[t]))
          /\ fresh' = TRUE
          /\ Commit(DB)
          /\ Return(t, "ok")
       \/ Aborted(t) /\ UNCHANGED <<exported, fresh>>
    /\ Resumed(t)
    /\ UNCHANGED <<dbPromise, local>>

(* importProfile: one transaction, whichever branch is taken.              *)
ImportProfile(t, jsonString) ==
    /\ CanCall(t)
    /\ \/ Ran(t, ImportRun(DB, jsonString))
       \/ Aborted(t)
    /\ Called(t, "importProfile", jsonString)
    /\ Stale
    /\ UNCHANGED <<dbPromise, local>>

-----------------------------------------------------------------------------
(* The pages' handlers.  What a handler has decided before it calls the    *)
(* store is kept in local[t].                                              *)

(* AddReading.handleBulkSubmit, up to the call of bulkSaveReadings...      *)
AddReading_handleBulkSubmit(t, id, bulkText) ==
    /\ pc[t] = "idle"
    /\ dbPromise = "resolved"
    /\ Len(bulkText) <= Len(FreshIds(readings))
    /\ op' = [op EXCEPT ![t] = "handleBulkSubmit"]
    /\ arg' = [arg EXCEPT ![t] = bulkText]
    /\ local' = [local EXCEPT ![t] = ParseBulkText(id, bulkText, FreshIds(readings))]
    /\ result' = [result EXCEPT ![t] = "none"]
    /\ pre' = [pre EXCEPT ![t] = DB]
    /\ Commit(DB)
    /\ Watch(t, TRUE)
    /\ UNCHANGED <<dbPromise, pc, exported, fresh, nops>>

(* ...and that call, made if the lines were parsed.                        *)
AddReading_bulkSaveReadings(t) ==
    /\ op[t] = "handleBulkSubmit"
    /\ local[t].kind = "parsed"
    /\ BulkSaveReadings(t, local[t].readings)

(* window.confirm in a delete handler: the answer is the user's, and the   *)
(* handler returns at once on a refusal.                                   *)
WindowConfirm(t, handler, targets, answer) ==
    /\ CanCall(t)
    /\ op' = [op EXCEPT ![t] = handler]
    /\ arg' = [arg EXCEPT ![t] = targets]
    /\ local' = [local EXCEPT ![t] =
                    [kind |-> IF answer THEN "confirmed" ELSE "declined",
                     targets |-> targets]]
    /\ result' = [result EXCEPT ![t] = "none"]
    /\ pre' = [pre EXCEPT ![t] = DB]
    /\ Commit(DB)
    /\ Watch(t, TRUE)
    /\ UNCHANGED <<dbPromise, pc, exported, fresh, nops>>

(* The handler of t has asked and is at the call for its first target, or  *)
(* its loop has awaited the call for target i and is at the next.          *)
AtTarget(t, handlers, o, i) ==
    /\ local[t].kind \in {"confirmed", "declined"}
    /\ i \in DOMAIN local[t].targets
    /\ \/ i = 1 /\ op[t] \in handlers
       \/ /\ i > 1 /\ op[t] = o /\ pc[t] = "idle" /\ result[t] = "ok"
          /\ arg[t] = local[t].targets[i - 1]

MemberHandlers == {"ManageMembers.handleDeleteSingle", "ManageMembers.handleBulkDelete"}
ReadingHandlers == {"ManageReadings.handleDeleteSingle", "ManageReadings.handleBulkDelete"}
GroupHandlers == {"PatientDetail.handleDeleteTestGroup"}
DeleteHandlers == MemberHandlers \cup ReadingHandlers \cup GroupHandlers

(* The selections of the two lists, which show what the store holds.       *)
SelectedMembers == {<<"p1">>}
SelectedReadings == {<<"r1", "r2">>}

Listed(store, targets) ==
    \A i \in DOMAIN targets : \E x \in store : x.id = targets[i]

(* ManageMembers: the two handlers up to window.confirm...                 *)
ManageMembers_handleDeleteSingle(t, id, answer) ==
    /\ Listed(patients, <<id>>)
    /\ WindowConfirm(t, "ManageMembers.handleDeleteSingle", <<id>>, answer)

ManageMembers_handleBulkDelete(t, selectedIds, answer) ==
    /\ selectedIds # <<>>
    /\ Listed(patients, selectedIds)
    /\ WindowConfirm(t, "ManageMembers.handleBulkDelete", selectedIds, answer)

(* The handlers calling deletePatient whatever the answer.                 *)
ManageMembers_deletePatient_Unasked(t) ==
    \E i \in 1..MaxBatch :
        /\ op[t] \in MemberHandlers \cup {"deletePatient"}
        /\ AtTarget(t, MemberHandlers, "deletePatient", i)
        /\ DeletePatient_delete(t, local[t].targets[i])

(* ...and their calls of deletePatient, one per member.                    *)
ManageMembers_deletePatient(t) ==
    \E i \in 1..MaxBatch :
        /\ op[t] \in MemberHandlers \cup {"deletePatient"}
        /\ AtTarget(t, MemberHandlers, "deletePatient", i)
        /\ local[t].kind = "confirmed"
        /\ DeletePatient_delete(t, local[t].targets[i])

(* ManageReadings: the same for readings.                                  *)
ManageReadings_handleDeleteSingle(t, rid, answer) ==
    /\ Listed(readings, <<rid>>)
    /\ WindowConfirm(t, "ManageReadings.handleDeleteSingle", <<rid>>, answer)

ManageReadings_handleBulkDelete(t, selectedIds, answer) ==
    /\ selectedIds # <<>>
    /\ Listed(readings, selectedIds)
    /\ WindowConfirm(t, "ManageReadings.handleBulkDelete", selectedIds, answer)

ManageReadings_deleteReading(t) ==
    \E i \in 1..MaxBatch :
        /\ op[t] \in ReadingHandlers \cup {"deleteReading"}
        /\ AtTarget(t, ReadingHandlers, "deleteReading", i)
        /\ local[t].kind = "confirmed"
        /\ DeleteReading(t, local[t].targets[i])

(* PatientDetail: the readings of one test of the patient shown.           *)
PatientDetail_handleDeleteTestGroup(t, patientId, testName, answer) ==
    /\ Listed(patients, <<patientId>>)
    /\ ByPatientAndName(readings, patientId, testName) # {}
    /\ WindowConfirm(t, "PatientDetail.handleDeleteTestGroup",
                     <<patientId, testName>>, answer)

PatientDetail_deleteTestReadingsByName(t) ==
    /\ op[t] \in GroupHandlers
    /\ local[t].kind = "confirmed"
    /\ DeleteTestReadingsByName(t, local[t].targets[1], local[t].targets[2])

ImportTexts == ImportInputs \cup (IF exported.kind = "object" THEN {exported} ELSE {})

Next ==
    \/ InitDB
    \/ OpenAndSeed
    \/ Reload
    \/ \E t \in Tasks :
        \/ \E p \in PatientInputs : SavePatient(t, p)
        \/ \E id \in PatientIds : DeletePatient_delete(t, id)
        \/ DeletePatient_cascade(t)
        \/ \E r \in ReadingInputs \cup {ReadingNoId} : SaveReading_put(t, r)
        \/ SaveReading_getRefs(t)
        \/ SaveReading_putRef(t)
        \/ \E b \in BatchInputs : BulkSaveReadings(t, b)
        \/ SaveTestReference(t, RefHb)
        \/ \E p \in {PrefsSort, PrefsFilter} : SavePreferences_get(t, p)
        \/ SavePreferences_put(t)
        \/ GetPreferences_call(t)
        \/ ExportEntireProfile(t)
        \/ \E id \in PatientIds : ExportMemberData_get(t, id)
        \/ ExportMemberData_readings(t)
        \/ \E s \in ImportTexts : ImportProfile(t, s)

Spec == Init /\ [][Next]_vars

(* The cascade's callers: members are saved and deleted, readings saved.   *)
NextDelete ==
    \/ InitDB
    \/ OpenAndSeed
    \/ \E t \in Tasks :
        \/ \E p \in PatientInputs : SavePatient(t, p)
        \/ \E id \in PatientIds : DeletePatient_delete(t, id)
        \/ DeletePatient_cascade(t)
        \/ \E r \in ReadingInputs : SaveReading_put(t, r)
        \/ SaveReading_getRefs(t)
        \/ SaveReading_putRef(t)
        \/ BulkSaveReadings(t, <<ReadingR1, ReadingR2>>)

SpecDelete == Init /\ [][NextDelete]_vars

(* The callers that record readings and references.                        *)
NextSave ==
    \/ InitDB
    \/ OpenAndSeed
    \/ \E t \in Tasks :
        \/ \E r \in ReadingInputs \cup {ReadingNoId} : SaveReading_put(t, r)
        \/ SaveReading_getRefs(t)
        \/ SaveReading_putRef(t)
        \/ \E b \in BatchInputs : BulkSaveReadings(t, b)
        \/ SaveTestReference(t, RefHb)

SpecSave == Init /\ [][NextSave]_vars

(* The callers of the Settings page's export and import, after data entry. *)
NextImport ==
    \/ InitDB
    \/ OpenAndSeed
    \/ \E t \in Tasks :
        \/ \E p \in PatientInputs : SavePatient(t, p)
        \/ \E r \in {ReadingR1, ReadingR2} : SaveReading_put(t, r)
        \/ SaveReading_getRefs(t)
        \/ SaveReading_putRef(t)
        \/ SavePreferences_get(t, PrefsSort)
        \/ SavePreferences_put(t)
        \/ ExportEntireProfile(t)
        \/ \E s \in ImportTexts : ImportProfile(t, s)

SpecImport == Init /\ [][NextImport]_vars

(* The callers of the Settings page's import, given files whose keys fit   *)
(* more than one shape.                                                    *)
NextClassify ==
    \/ InitDB
    \/ OpenAndSeed
    \/ \E t \in Tasks :
        \/ \E p \in PatientInputs : SavePatient(t, p)
        \/ \E s \in ClassifyInputs : ImportProfile(t, s)

SpecClassify == Init /\ [][NextClassify]_vars

(* The file the member export wrote, once there is one.                    *)
MemberImportTexts == IF exported.kind = "object" THEN {exported} ELSE {}

(* A longer session: MaxMemberOps calls are followed instead of MaxOps.    *)
InitMember ==
    /\ patients = {}
    /\ readings = {}
    /\ testReferences = {}
    /\ preferences = {}
    /\ dbPromise = "null"
    /\ pc = [t \in Tasks |-> "idle"]
    /\ op = [t \in Tasks |-> "none"]
    /\ arg = [t \in Tasks |-> "none"]
    /\ local = [t \in Tasks |-> {}]
    /\ result = [t \in Tasks |-> "none"]
    /\ pre = [t \in Tasks |-> DB]
    /\ clean = [t \in Tasks |-> TRUE]
    /\ exported = NoText
    /\ fresh = FALSE
    /\ nops = MaxOps - MaxMemberOps

(* The Settings page's member export and import, around the deletion of    *)
(* the member on the Manage Members page, after data entry.                *)
NextMember ==
    \/ InitDB
    \/ OpenAndSeed
    \/ \E t \in Tasks :
        \/ SavePatient(t, PatientAlice)
        \/ \E r \in {ReadingR1, ReadingR2} : SaveReading_put(t, r)
        \/ SaveReading_getRefs(t)
        \/ SaveReading_putRef(t)
        \/ ExportMemberData_get(t, PatientAlice.id)
        \/ ExportMemberData_readings(t)
        \/ DeletePatient_delete(t, PatientAlice.id)
        \/ DeletePatient_cascade(t)
        \/ \E s \in MemberImportTexts : ImportProfile(t, s)

SpecMember == InitMember /\ [][NextMember]_vars

(* Page loads, with the writers of testReferences between them.            *)
NextSeed ==
    \/ InitDB
    \/ OpenAndSeed
    \/ Reload
    \/ \E t \in Tasks :
        \/ \E ref \in {RefHb, RefSEdited} : SaveTestReference(t, ref)
        \/ SaveReading_put(t, ReadingR1)
        \/ SaveReading_getRefs(t)
        \/ SaveReading_putRef(t)
        \/ ImportProfile(t, ReferencesText)

SpecSeed == Init /\ [][NextSeed]_vars

(* The Dashboard's sort and filter controls, and the read at its mount.    *)
NextPrefs ==
    \/ InitDB
    \/ OpenAndSeed
    \/ \E t \in Tasks :
        \/ \E p \in {PrefsSort, PrefsSortName, PrefsFilter} : SavePreferences_get(t, p)
        \/ SavePreferences_put(t)
        \/ GetPreferences_call(t)

SpecPrefs == Init /\ [][NextPrefs]_vars

(* The batches of two different readings.                                  *)
PairInputs == {b \in ReadingInputs \X ReadingInputs : b[1] # b[2]}

(* The Add Reading page: single entries and pasted batches, and a          *)
(* reference saved by hand beforehand.                                     *)
NextEntry ==
    \/ InitDB
    \/ OpenAndSeed
    \/ \E t \in Tasks :
        \/ \E r \in ReadingInputs : SaveReading_put(t, r)
        \/ SaveReading_getRefs(t)
        \/ SaveReading_putRef(t)
        \/ \E b \in PairInputs : BulkSaveReadings(t, b)
        \/ SaveTestReference(t, RefHb)

SpecEntry == Init /\ [][NextEntry]_vars

(* The Add Reading page used for one test name by two callers at a time.   *)
NextNames ==
    \/ InitDB
    \/ OpenAndSeed
    \/ \E t \in Tasks :
        \/ \E r \in NameInputs : SaveReading_put(t, r)
        \/ SaveReading_getRefs(t)
        \/ SaveReading_putRef(t)
        \/ \E b \in NamePairs : BulkSaveReadings(t, b)

SpecNames == Init /\ [][NextNames]_vars

(* Pages mounting: their first operations call initDB before it has        *)
(* resolved, and it may fail.                                              *)
NextInit ==
    \/ OpenAndSeed
    \/ OpenFailed
    \/ Reload
    \/ \E t \in Tasks :
        \/ InitDB_await(t)
        \/ InitDB_resolved(t)
        \/ InitDB_rejected(t)
        \/ GetPreferences_call(t)
        \/ SavePatient(t, PatientAlice)
        \/ \E s \in {FullProfileText, GarbageText} : ImportProfile(t, s)

SpecInit == Init /\ [][NextInit]_vars

(* The Add Reading page of patient p1 in bulk mode.                        *)
NextBulkEntry ==
    \/ InitDB
    \/ OpenAndSeed
    \/ \E t \in Tasks :
        \/ \E text \in BulkTexts : AddReading_handleBulkSubmit(t, "p1", text)
        \/ AddReading_bulkSaveReadings(t)

SpecBulkEntry == Init /\ [][NextBulkEntry]_vars

(* The pages that delete, over a database holding a member and readings.   *)
NextConfirm ==
    \/ InitDB
    \/ OpenAndSeed
    \/ \E t \in Tasks :
        \/ SavePatient(t, PatientAlice)
        \/ BulkSaveReadings(t, <<ReadingR1, ReadingR2>>)
        \/ \E answer \in BOOLEAN :
            \/ ManageMembers_handleDeleteSingle(t, "p1", answer)
            \/ \E s \in SelectedMembers : ManageMembers_handleBulkDelete(t, s, answer)
            \/ ManageReadings_handleDeleteSingle(t, "r2", answer)
            \/ \E s \in SelectedReadings : ManageReadings_handleBulkDelete(t, s, answer)
            \/ PatientDetail_handleDeleteTestGroup(t, "p1", "Hb", answer)
        \/ ManageMembers_deletePatient(t)
        \/ DeletePatient_cascade(t)
        \/ ManageReadings_deleteReading(t)
        \/ PatientDetail_deleteTestReadingsByName(t)

SpecConfirm == Init /\ [][NextConfirm]_vars

-----------------------------------------------------------------------------
(* Cascading delete (checked under SpecDelete)                             *)

HasPatient(store, id) == \E p \in store : p.id = id

(* Since caller t called its operation no other caller has written, and no *)
(* other caller is inside an operation now.                                *)
Alone(t) == clean[t] /\ \A u \in Tasks \ {t} : pc[u] = "idle"

(* C1: between the steps of deletePatient(id) no state shows the patient   *)
(* already gone from patients while a reading of it is still in readings.  *)
C1_NoHalfDeletedPatient ==
    \A t \in Tasks :
        (pc[t] = "deletePatient_cascade" /\ Alone(t) /\ HasPatient(pre[t].patients, arg[t]))
            => ~(~HasPatient(patients, arg[t]) /\ ByPatientId(readings, arg[t]) # {})

(* C2: a deletePatient that failed (and that no other caller wrote beside)  *)
(* leaves the patient record and the readings as they were when called.    *)
C2_FailedDeleteRolledBack ==
    \A t \in Tasks :
        (op[t] = "deletePatient" /\ pc[t] = "idle" /\ result[t] = "error" /\ Alone(t))
            => (patients = pre[t].patients /\ readings = pre[t].readings)

(* C3: once deletePatient(P) has returned successfully, no other caller    *)
(* having written meanwhile, P is not in patients and no reading has       *)
(* patientId = P.                                                          *)
C3_CascadeIntegrity ==
    \A t \in Tasks :
        (op[t] = "deletePatient" /\ pc[t] = "idle" /\ result[t] = "ok" /\ clean[t])
            => (~HasPatient(patients, arg[t]) /\ ByPatientId(readings, arg[t]) = {})

(* A patient with two readings has been deleted successfully.              *)
C3_Witness ==
    \E t \in Tasks :
        /\ op[t] = "deletePatient" /\ pc[t] = "idle" /\ result[t] = "ok" /\ clean[t]
        /\ HasPatient(pre[t].patients, arg[t])
        /\ Cardinality(ByPatientId(pre[t].readings, arg[t])) = 2

-----------------------------------------------------------------------------
(* Saving readings (checked under SpecSave)                                *)

(* C4: bulkSaveReadings(batch) is all-or-nothing: after a failed call the  *)
(* readings and the references are as they were when it was called, after *)
(* a successful one every reading of the batch is stored.                  *)
C4_BulkAllOrNothing ==
    \A t \in Tasks :
        (op[t] = "bulkSaveReadings" /\ pc[t] = "idle" /\ Alone(t))
            => IF result[t] = "error"
               THEN readings = pre[t].readings /\ testReferences = pre[t].testReferences
               ELSE \A i \in DOMAIN arg[t] : arg[t][i] \in readings

(* C6: a successful saveReading(r) for a test name that had no reference   *)
(* adds exactly one TestReference, carrying r's testName, unit and ideal   *)
(* bounds; for a name that had one, it adds none.                          *)
C6_ReferenceAutoDerivation ==
    \A t \in Tasks :
        (op[t] = "saveReading" /\ pc[t] = "idle" /\ result[t] = "ok" /\ Alone(t))
            => IF ByTestName(pre[t].testReferences, arg[t].testName) = {}
               THEN /\ Cardinality(testReferences) = Cardinality(pre[t].testReferences) + 1
                    /\ \E ref \in testReferences \ pre[t].testReferences :
                          /\ ref.testName = arg[t].testName
                          /\ ref.unit = arg[t].unit
                          /\ ref.defaultIdealMin = arg[t].idealMin
                          /\ ref.defaultIdealMax = arg[t].idealMax
               ELSE testReferences = pre[t].testReferences

(* C7: a saveReading whose reading was persisted reports success, whatever *)
(* became of the derivation of the reference.                              *)
C7_DerivationFailureTolerated ==
    \A t \in Tasks :
        (op[t] = "saveReading" /\ pc[t] = "idle" /\ Alone(t)
            /\ arg[t] \in readings /\ arg[t] \notin pre[t].readings)
            => result[t] = "ok"

-----------------------------------------------------------------------------
(* Export and import (checked under SpecImport)                            *)

IsFullProfile(text) ==
    text.kind = "object" /\ Has(text.doc, "patients") /\ Has(text.doc, "readings")

(* The text is no JSON object, or an object with none of: a patients and a *)
(* readings list, a patient and a readings list, a testReferences list.    *)
Unrecognized(text) ==
    \/ text.kind # "object"
    \/ /\ ~(Has(text.doc, "patients") /\ Has(text.doc, "readings"))
       /\ ~(Has(text.doc, "patient") /\ Has(text.doc, "readings"))
       /\ ~Has(text.doc, "testReferences")

(* C5: a full-profile import that failed leaves all four stores as they    *)
(* were when it was called.                                                *)
C5_FullImportAtomic ==
    \A t \in Tasks :
        (op[t] = "importProfile" /\ pc[t] = "idle" /\ Alone(t)
            /\ result[t] = "error" /\ IsFullProfile(arg[t]))
            => DB = pre[t]

(* C8: importing the text exportEntireProfile gave for the current stores  *)
(* leaves patients, readings, testReferences and what getPreferences       *)
(* returns unchanged.                                                      *)
C8_ExportImportRoundTrip ==
    \A t \in Tasks :
        (op[t] = "importProfile" /\ pc[t] = "idle" /\ result[t] = "ok" /\ Alone(t)
            /\ arg[t] = exported /\ arg[t] = ExportText(pre[t]))
            => /\ patients = pre[t].patients
               /\ readings = pre[t].readings
               /\ testReferences = pre[t].testReferences
               /\ GetPreferences(preferences) = GetPreferences(pre[t].preferences)

(* C9: once a snapshot has been imported (the import returned, or threw    *)
(* after writing a part), importing the same snapshot again, nothing else  *)
(* having been written in between, changes no store.                       *)
C9_ImportIdempotent ==
    [][\A t, u \in Tasks :
          (op[t] = "importProfile" /\ pc[t] = "idle" /\ clean[t]
              /\ (result[t] = "ok" \/ DB # pre[t])
              /\ ImportProfile(u, arg[t]))
              => stores' = stores]_vars

(* One caller's full-profile import changed the stores, and the other      *)
(* caller has imported the same text after it.                             *)
C9_Witness ==
    \E t, u \in Tasks :
        /\ t # u
        /\ op[t] = "importProfile" /\ pc[t] = "idle" /\ result[t] = "ok" /\ clean[t]
        /\ op[u] = "importProfile" /\ pc[u] = "idle" /\ result[u] = "ok" /\ clean[u]
        /\ arg[t] = FullProfileText /\ arg[u] = FullProfileText
        /\ pre[t] # pre[u]
        /\ pre[u] = DB

-----------------------------------------------------------------------------
(* The branches of importProfile (checked under SpecImport)                *)

(* C11: importProfile on a payload with a testReferences list and a        *)
(* patients list or a patient object, but no readings list, rejects and    *)
(* writes nothing: the references branch is for payloads with neither.     *)
C11_ReferencesOnlyFailsClosed ==
    \A t \in Tasks :
        (op[t] = "importProfile" /\ pc[t] = "idle" /\ Alone(t)
            /\ arg[t].kind = "object"
            /\ Has(arg[t].doc, "testReferences")
            /\ (Has(arg[t].doc, "patients") \/ Has(arg[t].doc, "patient"))
            /\ ~Has(arg[t].doc, "readings"))
            => (result[t] = "error" /\ DB = pre[t])

(* The records of a list, as a set.                                        *)
Elements(recs) == {recs[i] : i \in DOMAIN recs}

(* C12 (checked under SpecClassify): importProfile tries full-profile,     *)
(* then single-member, then references-only. A payload with a patients and *)
(* a readings list gets exactly its patients list and its readings put,    *)
(* its singular patient is not; a payload with a patient object and a      *)
(* readings list but no patients list gets that patient and its readings   *)
(* put, and its testReferences list is not imported.                       *)
C12_ClassificationOrder ==
    \A t \in Tasks :
        (op[t] = "importProfile" /\ pc[t] = "idle" /\ result[t] = "ok" /\ clean[t]
            /\ arg[t].kind = "object" /\ Has(arg[t].doc, "readings"))
            => LET data == arg[t].doc
               IN /\ Has(data, "patients") =>
                      /\ Elements(data.patients) \subseteq patients
                      /\ patients \subseteq pre[t].patients \cup Elements(data.patients)
                      /\ Elements(data.readings) \subseteq readings
                  /\ (Has(data, "patient") /\ ~Has(data, "patients")) =>
                      /\ data.patient \in patients
                      /\ patients \subseteq pre[t].patients \cup {data.patient}
                      /\ Elements(data.readings) \subseteq readings
                      /\ testReferences = pre[t].testReferences
                      /\ preferences = pre[t].preferences

(* One caller imported the payload with both patients and patient: Alice   *)
(* of the list is stored and Bob, the singular patient, is not. Then the   *)
(* other imported the member payload that carries references: Bob is       *)
(* stored and the reference hb is not.                                     *)
C12_Witness ==
    \E t, u \in Tasks :
        /\ op[t] = "importProfile" /\ pc[t] = "idle" /\ result[t] = "ok"
        /\ arg[t] = FullWithPatientText
        /\ PatientAlice \in pre[u].patients /\ ~HasPatient(pre[u].patients, "p2")
        /\ op[u] = "importProfile" /\ pc[u] = "idle" /\ result[u] = "ok" /\ clean[u]
        /\ arg[u] = MemberWithReferencesText
        /\ PatientBob \in patients /\ ReadingR3 \in readings
        /\ RefHb \notin testReferences

(* C13 (checked under SpecImport): after a full-profile import whose       *)
(* payload has a preferences object, the stored preferences record is that *)
(* object exactly; no field stored before and absent from it survives.     *)
C13_ImportReplacesPreferences ==
    \A t \in Tasks :
        (op[t] = "importProfile" /\ pc[t] = "idle" /\ result[t] = "ok" /\ clean[t]
            /\ IsFullProfile(arg[t]) /\ Has(arg[t].doc, "preferences"))
            => /\ preferences # {}
               /\ \A x \in preferences :
                      x.key = PREFS_KEY /\ x.value = arg[t].doc.preferences

(* sortMembersBy was stored when the payload with only filterMembersQuery  *)
(* was imported, and is not stored now.                                    *)
C13_Witness ==
    \E t \in Tasks :
        /\ op[t] = "importProfile" /\ pc[t] = "idle" /\ result[t] = "ok" /\ clean[t]
        /\ arg[t] = FullProfileText
        /\ Has(GetPreferences(pre[t].preferences), "sortMembersBy")
        /\ ~Has(GetPreferences(preferences), "sortMembersBy")
        /\ Has(GetPreferences(preferences), "filterMembersQuery")

(* The text has a testReferences list and neither a patients or patient    *)
(* nor a readings entry.                                                   *)
IsReferencesOnly(text) ==
    /\ text.kind = "object"
    /\ Has(text.doc, "testReferences")
    /\ ~Has(text.doc, "patients") /\ ~Has(text.doc, "patient")
    /\ ~Has(text.doc, "readings")

(* C14 (checked under SpecImport): after a references-only import every    *)
(* imported reference is stored exactly as imported, whatever was stored   *)
(* under its id before, and the references of other ids are as before.     *)
C14_ReferenceImportReplaces ==
    \A t \in Tasks :
        (op[t] = "importProfile" /\ pc[t] = "idle" /\ result[t] = "ok" /\ clean[t]
            /\ IsReferencesOnly(arg[t]))
            => LET imported == Elements(arg[t].doc.testReferences)
                   ids == {x.id : x \in imported}
               IN /\ imported \subseteq testReferences
                  /\ {x \in testReferences : x.id \notin ids}
                        = {x \in pre[t].testReferences : x.id \notin ids}
                  /\ \A x \in testReferences : x.id \in ids => x \in imported

(* The reference hb derived from a reading, with defaultIdealMax 16, was   *)
(* stored when the reference hb without defaultIdealMax was imported: the  *)
(* stored hb has no defaultIdealMax now, and the seeded reference stays.   *)
C14_Witness ==
    \E t \in Tasks :
        /\ op[t] = "importProfile" /\ pc[t] = "idle" /\ result[t] = "ok" /\ clean[t]
        /\ arg[t] = ReferencesText
        /\ \E x \in pre[t].testReferences :
              x.id = RefHb.id /\ x.defaultIdealMax = "16"
        /\ \A x \in testReferences : x.id = RefHb.id => x.defaultIdealMax = Undefined
        /\ defaultTests \subseteq testReferences

-----------------------------------------------------------------------------
(* Member export and import (checked under SpecMember)                     *)

(* C15: a caller exported the existing patient P; the stores then held     *)
(* what they held at the export less P and the readings of P, as           *)
(* deletePatient(P) leaves them, and the exported text was imported: all   *)
(* four stores are as they were at the export.                             *)
C15_MemberRoundTrip ==
    \A t, u \in Tasks :
        (/\ op[t] = "exportMemberData" /\ pc[t] = "idle" /\ result[t] = "ok"
         /\ HasPatient(pre[t].patients, arg[t])
         /\ exported = MemberExportText({p \in pre[t].patients : p.id = arg[t]},
                                        ByPatientId(pre[t].readings, arg[t]))
         /\ op[u] = "importProfile" /\ pc[u] = "idle" /\ result[u] = "ok" /\ clean[u]
         /\ arg[u] = exported
         /\ pre[u] = [pre[t] EXCEPT !.patients = Delete(@, arg[t]),
                                    !.readings = CascadeDelete(@, arg[t])])
            => DB = pre[t]

-----------------------------------------------------------------------------
(* Seeding (checked under SpecSeed)                                        *)

(* C16: when initDB's open resolves, the defaults are written if and only  *)
(* if testReferences is empty then, and a store that is not empty is left  *)
(* exactly as it is; no step empties testReferences again, so the seeding  *)
(* takes effect once, whatever operations and page loads follow.           *)
C16_SeedOnlyWhenEmpty ==
    [][/\ testReferences # {} => testReferences' # {}
       /\ (dbPromise = "pending" /\ dbPromise' = "resolved")
            => IF testReferences = {}
               THEN testReferences' = defaultTests
               ELSE testReferences' = testReferences]_vars

(* The seeded reference was edited, the page was loaded again and initDB   *)
(* has run again: the edited reference is still the stored one.            *)
C16_Witness ==
    /\ dbPromise = "resolved"
    /\ nops > 0
    /\ \A t \in Tasks : op[t] = "none"
    /\ RefSEdited \in testReferences
    /\ defaultTests \cap testReferences = {}

-----------------------------------------------------------------------------
(* Preferences (checked under SpecPrefs)                                   *)

(* C17: after savePreferences(p) has returned, no other caller having      *)
(* written meanwhile, the stored record has the fields of the record       *)
(* stored before and those of p, each field of p with p's value and every  *)
(* other with the value it had.                                            *)
C17_PreferenceMerge ==
    \A t \in Tasks :
        (op[t] = "savePreferences" /\ pc[t] = "idle" /\ result[t] = "ok" /\ clean[t])
            => LET old == GetPreferences(pre[t].preferences)
                   new == GetPreferences(preferences)
               IN /\ preferences # {}
                  /\ DOMAIN new = DOMAIN old \cup DOMAIN arg[t]
                  /\ \A k \in DOMAIN arg[t] : new[k] = arg[t][k]
                  /\ \A k \in DOMAIN old \ DOMAIN arg[t] : new[k] = old[k]

(* sortMembersBy name and filterMembersQuery abc were stored, and          *)
(* sortMembersBy age was saved: age and abc are stored.                    *)
C17_Witness ==
    \E t \in Tasks :
        /\ op[t] = "savePreferences" /\ pc[t] = "idle" /\ result[t] = "ok" /\ clean[t]
        /\ arg[t] = PrefsSort
        /\ GetPreferences(pre[t].preferences) = Merge(PrefsSortName, PrefsFilter)
        /\ GetPreferences(preferences) = Merge(PrefsSort, PrefsFilter)

(* C18: two savePreferences calls that set disjoint fields overlapped,     *)
(* both having read the same record, one with neither field, before either *)
(* wrote: once both have returned, the field of one of them is not in the  *)
(* stored record.                                                          *)
C18_LostUpdate ==
    \A t, u \in Tasks :
        (/\ t # u
         /\ op[t] = "savePreferences" /\ pc[t] = "idle" /\ result[t] = "ok"
         /\ op[u] = "savePreferences" /\ pc[u] = "idle" /\ result[u] = "ok"
         /\ DOMAIN arg[t] \cap DOMAIN arg[u] = {}
         /\ local[t] = local[u]
         /\ DOMAIN local[t] \cap (DOMAIN arg[t] \cup DOMAIN arg[u]) = {})
            => \E w \in {t, u} :
                  \A k \in DOMAIN arg[w] : ~Has(GetPreferences(preferences), k)

(* The sort and the filter were saved by overlapping calls on an empty     *)
(* store: only the filter is stored.                                       *)
C18_Witness ==
    \E t, u \in Tasks :
        /\ op[t] = "savePreferences" /\ pc[t] = "idle" /\ result[t] = "ok"
        /\ op[u] = "savePreferences" /\ pc[u] = "idle" /\ result[u] = "ok"
        /\ arg[t] = PrefsSort /\ arg[u] = PrefsFilter
        /\ pre[t].preferences = {} /\ pre[u].preferences = {}
        /\ GetPreferences(preferences) = PrefsFilter

(* C19: getPreferences returns an object: the stored record, or the empty  *)
(* object when no record is stored; it is never undefined.                 *)
C19_GetPreferencesDefault ==
    \A t \in Tasks :
        (op[t] = "getPreferences" /\ pc[t] = "idle" /\ result[t] = "ok")
            => /\ local[t].kind = "object"
               /\ IF pre[t].preferences = {}
                  THEN local[t].doc = EmptyObject
                  ELSE \E x \in pre[t].preferences :
                          x.key = PREFS_KEY /\ local[t].doc = x.value

(* One caller has read the preferences of a store that has none and got    *)
(* the empty object; the other has read them after a save and got the      *)
(* saved record.                                                           *)
C19_Witness ==
    \E t, u \in Tasks :
        /\ op[t] = "getPreferences" /\ pc[t] = "idle" /\ result[t] = "ok"
        /\ pre[t].preferences = {} /\ local[t].doc = EmptyObject
        /\ op[u] = "getPreferences" /\ pc[u] = "idle" /\ result[u] = "ok"
        /\ pre[u].preferences # {} /\ local[u].doc = PrefsSort

-----------------------------------------------------------------------------
(* Single and bulk entry of readings (checked under SpecEntry)             *)

(* The two states hold the same readings and the same references.          *)
SameEntries(d, e) ==
    d.readings = e.readings /\ d.testReferences = e.testReferences

(* C20: saveReading(r1) run alone to its return leaves readings and        *)
(* testReferences as bulkSaveReadings([r1]) from the same state would, and *)
(* saveReading(r2) run alone after it leaves them as                       *)
(* bulkSaveReadings([r1, r2]) from the first state would.                  *)
C20_BulkAsSequential ==
    \A t, u \in Tasks :
        /\ (op[t] = "saveReading" /\ pc[t] = "idle" /\ result[t] = "ok" /\ clean[t])
              => SameEntries(DB, BulkLoop(pre[t], <<arg[t]>>).db)
        /\ (/\ t # u
            /\ op[t] = "saveReading" /\ pc[t] = "idle" /\ result[t] = "ok"
            /\ op[u] = "saveReading" /\ pc[u] = "idle" /\ result[u] = "ok" /\ clean[u]
            /\ SameEntries(pre[u], BulkLoop(pre[t], <<arg[t]>>).db))
              => SameEntries(DB, BulkLoop(pre[t], <<arg[t], arg[u]>>).db)

(* Reading r1 (Hb) and after it reading r2 (hb) were saved one by one from *)
(* a store with neither name: both are stored, and the one reference hb    *)
(* is the one derived from r2.                                             *)
C20_Witness ==
    \E t, u \in Tasks :
        /\ t # u
        /\ op[t] = "saveReading" /\ pc[t] = "idle" /\ result[t] = "ok"
        /\ op[u] = "saveReading" /\ pc[u] = "idle" /\ result[u] = "ok" /\ clean[u]
        /\ arg[t] = ReadingR1 /\ arg[u] = ReadingR2
        /\ pre[t].readings = {} /\ pre[t].testReferences = defaultTests
        /\ pre[u].readings = {ReadingR1}
        /\ DerivedRef(ReadingR1) \in pre[u].testReferences
        /\ readings = {ReadingR1, ReadingR2}
        /\ testReferences = defaultTests \cup {DerivedRef(ReadingR2)}

-----------------------------------------------------------------------------
(* What deletePatient leaves alone (checked under SpecDelete)              *)

(* C21: once deletePatient(P) has returned, no other caller having written *)
(* meanwhile, testReferences and preferences are as they were, and so are  *)
(* the patients other than P and the readings of patients other than P.    *)
C21_DeleteFrame ==
    \A t \in Tasks :
        (op[t] = "deletePatient" /\ pc[t] = "idle" /\ result[t] = "ok" /\ clean[t])
            => /\ testReferences = pre[t].testReferences
               /\ preferences = pre[t].preferences
               /\ {p \in patients : p.id # arg[t]} = {p \in pre[t].patients : p.id # arg[t]}
               /\ {r \in readings : r.patientId # arg[t]}
                     = {r \in pre[t].readings : r.patientId # arg[t]}

(* Patient p1 had reading r1, from which the reference Hb was derived, and *)
(* another patient had reading r3; p1 was deleted: r1 is gone, r3 and the  *)
(* references derived from both are stored.                                *)
C21_Witness ==
    \E t \in Tasks :
        /\ op[t] = "deletePatient" /\ pc[t] = "idle" /\ result[t] = "ok" /\ clean[t]
        /\ arg[t] = "p1"
        /\ pre[t].readings = {ReadingR1, ReadingR3}
        /\ readings = {ReadingR3}
        /\ DerivedRef(ReadingR1) \in testReferences
        /\ DerivedRef(ReadingR3) \in testReferences

-----------------------------------------------------------------------------
(* Derived references and test names (checked under SpecNames)             *)

(* C22: in every state that saveReading and bulkSaveReadings calls reach,  *)
(* overlapping ones included, no two stored references have the same       *)
(* testName.                                                               *)
C22_OneReferencePerName ==
    \A x, y \in testReferences : x.testName = y.testName => x = y

(* Two overlapping saveReading calls for the new name Hb both found no     *)
(* reference of that name and both have returned: one reference Hb is      *)
(* stored.                                                                 *)
C22_Witness ==
    \E t, u \in Tasks :
        /\ op[t] = "saveReading" /\ pc[t] = "idle" /\ result[t] = "ok"
        /\ op[u] = "saveReading" /\ pc[u] = "idle" /\ result[u] = "ok"
        /\ arg[t] = ReadingR1 /\ arg[u] = ReadingR4
        /\ ByTestName(pre[t].testReferences, "Hb") = {}
        /\ ByTestName(pre[u].testReferences, "Hb") = {}
        /\ local[t] = {} /\ local[u] = {}
        /\ Cardinality(ByTestName(testReferences, "Hb")) = 1

(* C27: once saveReading or bulkSaveReadings has returned, no other caller *)
(* having written meanwhile, every reference that was stored when it was   *)
(* called is stored unchanged.                                             *)
C27_DerivationKeepsReferences ==
    \A t \in Tasks :
        (op[t] \in {"saveReading", "bulkSaveReadings"} /\ pc[t] = "idle"
            /\ result[t] = "ok" /\ Alone(t))
            => pre[t].testReferences \subseteq testReferences

(* The index of the first reading of the batch with that test name.        *)
FirstWithName(batch, name) ==
    CHOOSE i \in DOMAIN batch :
        /\ batch[i].testName = name
        /\ \A j \in DOMAIN batch : j < i => batch[j].testName # name

-----------------------------------------------------------------------------
(* Readings and their patients (checked under SpecDelete)                  *)

(* C23: a deletePatient of an id that was not in patients, once it has     *)
(* returned without error, no other caller having written meanwhile, has   *)
(* left all four stores as they were.                                      *)
C23_DeleteMissingIsNoOp ==
    \A t \in Tasks :
        (op[t] = "deletePatient" /\ pc[t] = "idle" /\ result[t] = "ok" /\ Alone(t)
            /\ ~HasPatient(pre[t].patients, arg[t]))
            => DB = pre[t]

(* C28: whenever no operation is in flight, the patientId of every stored  *)
(* reading is the id of a stored patient.                                  *)
C28_ReferentialIntegrity ==
    (\A t \in Tasks : pc[t] = "idle")
        => \A r \in readings : HasPatient(patients, r.patientId)

-----------------------------------------------------------------------------
(* Opening the database (checked under SpecInit)                           *)

(* C25: a rejected initDB promise stays rejected until the page is loaded  *)
(* anew; while it is, no store changes and no operation returns without    *)
(* error; and an importProfile returns without error only when its         *)
(* transaction ran and nothing in it threw.                                *)
C25_FaultsPropagate ==
    [][/\ (dbPromise = "rejected" /\ dbPromise' # "null")
            => /\ dbPromise' = "rejected"
               /\ stores' = stores
               /\ \A t \in Tasks : result'[t] = "ok" => result[t] = "ok" /\ pc'[t] = pc[t]
       /\ \A t \in Tasks : \A s \in {FullProfileText, GarbageText} :
            (ImportProfile(t, s) /\ result'[t] = "ok")
                => /\ ~ImportRun(DB, arg'[t]).threw
                   /\ stores' = <<ImportRun(DB, arg'[t]).db.patients,
                                  ImportRun(DB, arg'[t]).db.readings,
                                  ImportRun(DB, arg'[t]).db.testReferences,
                                  ImportRun(DB, arg'[t]).db.preferences>>]_vars

(* initDB has failed, and the operations of both callers, which awaited    *)
(* it, have failed.                                                        *)
C25_Witness ==
    /\ dbPromise = "rejected"
    /\ \A t \in Tasks : op[t] = "initDB" /\ pc[t] = "idle" /\ result[t] = "error"

(* C29: the database is opened only by a call of initDB that finds no      *)
(* promise, so once per page load however many callers await it; and       *)
(* until the open and the seeding have finished no operation reads or      *)
(* writes a store.                                                         *)
C29_InitOnceBeforeUse ==
    [][/\ (dbPromise' = "pending" /\ dbPromise # "pending") => dbPromise = "null"
       /\ dbPromise # "resolved"
            => /\ nops' = nops /\ local' = local /\ exported' = exported
               /\ (stores' # stores
                      => /\ dbPromise = "pending" /\ dbPromise' = "resolved"
                         /\ patients' = patients /\ readings' = readings
                         /\ preferences' = preferences)]_vars

(* Both callers have called initDB and await the one pending open.         *)
C29_Witness ==
    /\ dbPromise = "pending"
    /\ \A t \in Tasks : pc[t] = "initDB_await"

-----------------------------------------------------------------------------
(* Bulk entry (checked under SpecBulkEntry)                                *)

(* A line of the text that is not blank has fewer than 4 fields or no      *)
(* date.                                                                   *)
Malformed(bulkText) ==
    \E i \in DOMAIN bulkText :
        /\ bulkText[i] # LineBlank
        /\ (Len(bulkText[i]) < 4 \/ bulkText[i][4] \notin {"2026-01-01", "2026-01-02"})

(* C24: bulkSaveReadings is called from the bulk entry only for a text     *)
(* with no malformed line; and after handleBulkSubmit on a text with a     *)
(* malformed line, no other caller having written meanwhile, no reading    *)
(* of the text is stored: the stores are as they were.                     *)
C24_BulkEntryRejectsWhole ==
    [][\A t \in Tasks :
          /\ (op'[t] = "bulkSaveReadings" /\ op[t] # "bulkSaveReadings")
                => (op[t] = "handleBulkSubmit" /\ ~Malformed(arg[t]))
          /\ (op[t] = "handleBulkSubmit" /\ Malformed(arg[t]))
                => /\ pc[t] = "idle"
                   /\ clean[t] => DB = pre[t]]_vars

(* A text whose first line is well formed and whose second has three       *)
(* fields was submitted after another submission had stored readings: the *)
(* handler has alerted and the stores are as they were.                    *)
C24_Witness ==
    \E t \in Tasks :
        /\ op[t] = "handleBulkSubmit" /\ pc[t] = "idle"
        /\ arg[t] = <<LineHb, LineShort>>
        /\ local[t].kind = "formatError"
        /\ clean[t] /\ DB = pre[t]
        /\ readings # {}

-----------------------------------------------------------------------------
(* Confirmation of deletes (checked under SpecConfirm)                     *)

(* The handler of t, one of hs, was answered yes for a list holding x.     *)
ConfirmedFor(t, hs, o, x) ==
    /\ op[t] \in hs \cup {o}
    /\ local[t].kind = "confirmed"
    /\ x \in Elements(local[t].targets)

(* C26: every call of deletePatient, deleteReading or                      *)
(* deleteTestReadingsByName is made by a handler whose window.confirm was  *)
(* answered yes, for a target the question was about; and a caller whose   *)
(* question was answered no calls no delete, and the stores are as they    *)
(* were, no other caller having written meanwhile.                         *)
C26_DeletesAreConfirmed ==
    [][\A t \in Tasks :
          /\ \A id \in PatientIds :
                DeletePatient_delete(t, id)
                    => ConfirmedFor(t, MemberHandlers, "deletePatient", id)
          /\ \A rid \in Elements(ReadingKeys) :
                DeleteReading(t, rid)
                    => ConfirmedFor(t, ReadingHandlers, "deleteReading", rid)
          /\ \A id \in PatientIds : \A n \in {"Hb", "hb"} :
                DeleteTestReadingsByName(t, id, n)
                    => /\ op[t] \in GroupHandlers \cup {"deleteTestReadingsByName"}
                       /\ local[t].kind = "confirmed"
                       /\ local[t].targets = <<id, n>>
          /\ (op[t] \in DeleteHandlers /\ local[t].kind = "declined")
                => /\ pc[t] = "idle"
                   /\ op'[t] \in DeleteHandlers \cup {"savePatient", "bulkSaveReadings"}
                   /\ clean[t] => DB = pre[t]]_vars

(* Two readings were selected and the question answered yes: the second   *)
(* call of deleteReading has returned, and no reading is left.             *)
C26_Witness ==
    \E t \in Tasks :
        /\ op[t] = "deleteReading" /\ pc[t] = "idle" /\ result[t] = "ok"
        /\ local[t].kind = "confirmed"
        /\ local[t].targets = <<"r1", "r2">>
        /\ arg[t] = "r2"
        /\ readings = {}
====
